---- MODULE Spec2Model ----
(***************************************************************************)
(* Model of src/ingestion/data_ingestion.py (HypixelDataIngestor).         *)
(*                                                                         *)
(* Time.  A pandas Timestamp / datetime is an integer number of            *)
(* milliseconds since 00:00 UTC of model day 0; model day 0 is the day     *)
(* before export_start_date (2020-08-01), so that a legacy baseline has    *)
(* room before the first exported day.  A date is a day number.            *)
(*                                                                         *)
(* Data.  A DataFrame is a sequence of rows.  A missing value is kept in   *)
(* the three forms the program has for it: the float NaN that resample     *)
(* and read_csv produce, the <NA> of the Int64 column after astype, and    *)
(* the empty field to_csv writes.                                          *)
(***************************************************************************)
EXTENDS Integers, Sequences, FiniteSets, TLC

VARIABLES
    today_datetime,   \* self.today_datetime: [day, hour], set by __init__
    ingestion_type,   \* self.ingestion_type of the running process, "none" when idle
    pc,               \* position of the running process in __call__
    legacy_file,      \* data/old/legacy_data.csv: [exists, rows]
    output_file,      \* data/player_counts.csv:   [exists, rows]
    data_dir,         \* os.path.exists(self.path_to_data)
    end_date,         \* local end_date of the running get_*_data
    date_list,        \* local date_list
    pos,              \* number of dates of date_list the loop has consumed
    historical_dfs,   \* local historical_dfs
    df,               \* the merged frame __call__ holds before to_csv
    last_fetch,       \* observer: [date, kind] of the latest remote request
    run_log,          \* observer: what the current run did so far
    prior,            \* observer: output_file when the current run started
    carried,          \* observer: what completed runs left behind
    f_date,           \* get_data_for_date study: the argument d
    f_response,       \* get_data_for_date study: the remote response
    f_result,         \* get_data_for_date study: the returned value
    m_in,             \* merge study: [B, D1, D2]
    m_out             \* merge study: results of the three merges

vars == <<today_datetime, ingestion_type, pc, legacy_file, output_file, data_dir,
          end_date, date_list, pos, historical_dfs, df, last_fetch, run_log,
          prior, carried, f_date, f_response, f_result, m_in, m_out>>

runVars == <<today_datetime, ingestion_type, pc, legacy_file, output_file, data_dir,
             end_date, date_list, pos, historical_dfs, df, last_fetch, run_log,
             prior, carried>>
fetchVars == <<f_date, f_response, f_result>>
mergeVars == <<m_in, m_out>>

----------------------------------------------------------------------------
(* Program constants *)

\* datetime(year=2020, month=8, day=1).date() as a model day number
ExportStartDate == 1
\* the width of a resample("h") bucket, in milliseconds
MsPerHour == 3600000
\* the width of a calendar date (.dt.date), in milliseconds
MsPerDay == 86400000
TargetIp == "mc.hypixel.net"

\* float NaN, Int64 <NA>, and the empty CSV field
NaN == -1
NA == -2
Blank == -3

(* Bounds of the model *)
\* the latest day the clock reaches
MaxDay == 4
\* the longest raw daily file of the get_data_for_date study
MaxRawRows == 4
\* rows that reach the disk in one flush of the writer's buffer
WriteChunkRows == 48

----------------------------------------------------------------------------
(* Timestamps *)

\* Timestamp.floor("h"): the left edge of the hourly bucket holding t
FloorHour(t) == (t \div MsPerHour) * MsPerHour
\* Timestamp.date()
DateOf(t) == t \div MsPerDay
\* the instant hh:mm of day d
At(d, hh, mm) == d * MsPerDay + hh * MsPerHour + mm * 60000

MaxOf(S) == CHOOSE x \in S : \A y \in S : y <= x
MinOf(S) == CHOOSE x \in S : \A y \in S : x <= y
SeqRange(s) == {s[k] : k \in 1..Len(s)}

\* df.sort_values(by=<timestamp column>)
SortByTimestamp(rows) == SortSeq(rows, LAMBDA a, b : a.Timestamp < b.Timestamp)

\* the index resample("h") builds: every hour from floor(min) to floor(max)
HourlyIndex(rows) ==
    IF rows = <<>> THEN <<>>
    ELSE LET ts == {r.Timestamp : r \in SeqRange(rows)}
             lo == FloorHour(MinOf(ts))
             hi == FloorHour(MaxOf(ts))
         IN  [k \in 1..((hi - lo) \div MsPerHour + 1) |-> lo + (k - 1) * MsPerHour]

----------------------------------------------------------------------------
(* get_data_for_date, lines 52-84 *)

\* resampling that keeps the first value of each bucket instead of the largest
ResampleFirst(rows) ==
    LET idx == HourlyIndex(rows)
        Hits(h) == SelectSeq(rows, LAMBDA x : FloorHour(x.Timestamp) = h)
    IN  [k \in 1..Len(idx) |->
            [Timestamp |-> idx[k],
             Peak |-> IF Hits(idx[k]) = <<>> THEN NaN ELSE Hits(idx[k])[1].Peak]]

\* .resample("h").max(): one row per hour of the index, the largest value of
\* the rows in that hour, NaN for an hour with no row
ResampleMax(rows) ==
    LET idx == HourlyIndex(rows)
        InBucket(h) == {r.Peak : r \in {x \in SeqRange(rows) : FloorHour(x.Timestamp) = h}}
    IN  [k \in 1..Len(idx) |->
            [Timestamp |-> idx[k],
             Peak |-> IF InBucket(idx[k]) = {} THEN NaN ELSE MaxOf(InBucket(idx[k]))]]

\* lines 67-82 on a response whose text is the CSV `raw`
HourlyPeaks(d, raw) ==
    LET own     == SelectSeq(raw, LAMBDA r : r.ip = TargetIp)
        renamed == [k \in 1..Len(own) |->
                       [Timestamp |-> own[k].timestamp, Peak |-> own[k].playerCount]]
        hourly  == ResampleMax(SortByTimestamp(renamed))
    IN  SelectSeq(hourly, LAMBDA r : DateOf(r.Timestamp) = d)

\* the value get_data_for_date returns for a response requests.get returned:
\* anything raised inside the try block becomes None
GetDataForDate(d, response) ==
    IF response.kind = "csv"
    THEN [kind |-> "df", rows |-> HourlyPeaks(d, response.rows)]
    ELSE [kind |-> "None"]

----------------------------------------------------------------------------
(* The CSV files, lines 87-90, 113-116 and 148 *)

\* how to_csv writes a Timestamp: date and time of day to the second
FormatTimestamp(t) ==
    <<DateOf(t), (t % MsPerDay) \div MsPerHour, (t % MsPerHour) \div 60000,
      (t % 60000) \div 1000>>
\* how read_csv(parse_dates=["Timestamp"]) reads it back
ParseTimestamp(s) == s[1] * MsPerDay + s[2] * MsPerHour + s[3] * 60000 + s[4] * 1000

\* df.to_csv(index=False): <NA> is written as the empty field
ToCsv(rows) ==
    [k \in 1..Len(rows) |->
        [Timestamp |-> FormatTimestamp(rows[k].Timestamp),
         Field |-> IF rows[k].Peak \in {NA, NaN} THEN Blank ELSE rows[k].Peak]]

\* pd.read_csv(path, parse_dates=["Timestamp"]): the empty field is read as NaN
ReadCsv(lines) ==
    [k \in 1..Len(lines) |->
        [Timestamp |-> ParseTimestamp(lines[k].Timestamp),
         Peak |-> IF lines[k].Field = Blank THEN NaN ELSE lines[k].Field]]

----------------------------------------------------------------------------
(* The merge, lines 102-108 and 129-135 *)

RECURSIVE Concat(_)
\* pd.concat(historical_dfs, ignore_index=True)
Concat(dfs) == IF dfs = <<>> THEN <<>> ELSE Head(dfs) \o Concat(Tail(dfs))

\* two rows of the sorted frame carry the same Timestamp
HasDuplicateIndex(rows) ==
    \E k \in 1..(Len(rows) - 1) : rows[k].Timestamp = rows[k + 1].Timestamp

\* the frame left as it is: sorted, not reindexed
AsfreqSkipped(rows) == rows

\* .resample("h").asfreq() on a frame without duplicate Timestamps: the frame
\* reindexed to the hourly index, NaN where no row sits on the hour
Asfreq(rows) ==
    LET idx == HourlyIndex(rows)
        On(h) == {r \in SeqRange(rows) : r.Timestamp = h}
    IN  [k \in 1..Len(idx) |->
            [Timestamp |-> idx[k],
             Peak |-> IF On(idx[k]) = {} THEN NaN ELSE (CHOOSE r \in On(idx[k]) : TRUE).Peak]]

\* df["Peak Player Count"].astype("Int64")
AsTypeInt64(rows) ==
    [k \in 1..Len(rows) |->
        [Timestamp |-> rows[k].Timestamp,
         Peak |-> IF rows[k].Peak = NaN THEN NA ELSE rows[k].Peak]]

\* lines 102-108: concat, sort, reindex to the hourly grid, cast.  asfreq
\* reindexes, and reindexing an index with duplicate labels raises ValueError.
Merge(dfs) ==
    LET all == SortByTimestamp(Concat(dfs))
    IN  IF HasDuplicateIndex(all)
        THEN [kind |-> "raise"]
        ELSE [kind |-> "df", rows |-> AsTypeInt64(Asfreq(all))]

----------------------------------------------------------------------------
(* The date range, lines 40-50, 92-96 and 117-122 *)

\* the cutoff without the extra day of lag in the first hour
GetMostRecentDateNoLag(now) == now.day - 1

\* get_most_recent_date on today_datetime = now
GetMostRecentDate(now) == IF now.hour < 1 THEN now.day - 2 ELSE now.day - 1

\* [first + i for i in range(lo, hi)]
DatesFrom(first, lo, hi) ==
    IF hi <= lo THEN <<>> ELSE [k \in 1..(hi - lo) |-> first + lo + (k - 1)]

\* the range one day short: range(days) instead of range(days + 1)
HistoricalDateListShort(endDate) ==
    DatesFrom(ExportStartDate, 0, endDate - ExportStartDate)

\* lines 93-96
HistoricalDateList(endDate) ==
    DatesFrom(ExportStartDate, 0, (endDate - ExportStartDate) + 1)

\* the range started at the latest recorded date itself: range(0, ...)
MostRecentDateListFromLatest(latestDate, endDate) ==
    DatesFrom(latestDate, 0, (endDate - latestDate) + 1)

\* lines 119-122
MostRecentDateList(latestDate, endDate) ==
    DatesFrom(latestDate, 1, (endDate - latestDate) + 1)

\* the date of the earliest row: min() instead of max()
EarliestDate(rows) == DateOf(MinOf({r.Timestamp : r \in SeqRange(rows)}))

\* old_df["Timestamp"].max().date()
LatestDate(rows) == DateOf(MaxOf({r.Timestamp : r \in SeqRange(rows)}))

----------------------------------------------------------------------------
(* The environment: the clock, the remote daily files, the legacy file *)

\* hours of the day at which a process is started
ClockHours == {0, 1}

Raw(ip, t, n) == [ip |-> ip, timestamp |-> t, playerCount |-> n]

\* a daily file with two samples of the target in one hour, a sample of
\* another server, and a sample of the target three hours later
RawPeaks(d) ==
    <<Raw(TargetIp, At(d, 0, 10), 10), Raw("mc.other.net", At(d, 0, 20), 99),
      Raw(TargetIp, At(d, 0, 40), 15), Raw(TargetIp, At(d, 3, 0), 20)>>
\* a daily file whose only sample of the target falls on the next day
RawSpill(d) ==
    <<Raw("mc.other.net", At(d, 2, 0), 99), Raw(TargetIp, At(d + 1, 0, 5), 30)>>
\* a daily file with a late sample and one past midnight
RawLate(d) ==
    <<Raw(TargetIp, At(d, 23, 30), 40), Raw(TargetIp, At(d + 1, 0, 5), 50)>>

\* what requests.get(url) can return for the file of date d: an error page,
\* or a daily file (a body that is no CSV is covered with get_data_for_date
\* on its own; here it acts as the error page does)
Responses(d) ==
    {[kind |-> "http_error"]}
    \cup {[kind |-> "csv", rows |-> r] : r \in {RawPeaks(d), RawSpill(d)}}

Line(d, hh, field) == [Timestamp |-> <<d, hh, 0, 0>>, Field |-> field]

\* legacy_data.csv: absent, ending before export_start_date, or reaching into it
LegacyFiles ==
    {[exists |-> FALSE, rows |-> <<>>],
     [exists |-> TRUE,
      rows |-> <<Line(0, 21, 100), Line(0, 22, Blank), Line(0, 23, 120)>>],
     [exists |-> TRUE,
      rows |-> <<Line(0, 23, 110), Line(ExportStartDate, 0, 130)>>]}

NoFile == [exists |-> FALSE, rows |-> <<>>]
NoFetch == [date |-> -1, kind |-> "none", raised |-> FALSE, returned |-> "none"]
EmptyLog == [requested |-> {}, unavailable |-> {}, ok |-> {}, nonempty |-> {}]
NothingCarried == [buried_ok |-> {}, buried_data |-> {}, tail |-> {}]

----------------------------------------------------------------------------
(* The process *)

RunInit ==
    /\ today_datetime = [day |-> ExportStartDate, hour |-> 0]
    /\ ingestion_type = "none"
    /\ pc = "idle"
    /\ legacy_file \in LegacyFiles
    /\ output_file = NoFile
    /\ data_dir \in {legacy_file.exists, TRUE}
    /\ end_date = 0
    /\ date_list = <<>>
    /\ pos = 0
    /\ historical_dfs = <<>>
    /\ df = <<>>
    /\ last_fetch = NoFetch
    /\ run_log = EmptyLog
    /\ prior = NoFile
    /\ carried = NothingCarried

StudyIdle ==
    /\ f_date = 0 /\ f_response = [kind |-> "none"] /\ f_result = [kind |-> "none"]
    /\ m_in = <<>> /\ m_out = <<>>

Init == RunInit /\ StudyIdle

\* the locals of a process that has ended
ProcessGone ==
    /\ ingestion_type' = "none"
    /\ pc' = "idle"
    /\ end_date' = 0
    /\ date_list' = <<>>
    /\ pos' = 0
    /\ historical_dfs' = <<>>
    /\ df' = <<>>
    /\ run_log' = EmptyLog
    /\ prior' = NoFile

\* lines 17-38: a process is started with a valid ingestion type; the clock
\* is read once, and never runs backwards between processes
Construct(type) ==
    /\ pc = "idle"
    /\ \E day \in today_datetime.day..MaxDay, hour \in ClockHours :
          /\ day > today_datetime.day \/ hour >= today_datetime.hour
          /\ today_datetime' = [day |-> day, hour |-> hour]
    /\ ingestion_type' = type
    /\ pc' = "call"
    /\ prior' = output_file
    /\ run_log' = EmptyLog
    /\ last_fetch' = NoFetch
    /\ UNCHANGED <<legacy_file, output_file, data_dir, end_date, date_list, pos,
                   historical_dfs, df, carried>>

\* lines 87-96: read the legacy file (raises when it is absent), plan the dates
HistoricalBegin ==
    /\ pc = "call" /\ ingestion_type = "historical"
    /\ IF legacy_file.exists
       THEN /\ historical_dfs' = <<ReadCsv(legacy_file.rows)>>
            /\ end_date' = GetMostRecentDate(today_datetime)
            /\ date_list' = HistoricalDateList(GetMostRecentDate(today_datetime))
            /\ pos' = 0
            /\ pc' = "fetch"
            /\ UNCHANGED <<ingestion_type, df>>
            /\ UNCHANGED <<run_log, prior>>
       ELSE ProcessGone
    /\ UNCHANGED <<today_datetime, legacy_file, output_file, data_dir, last_fetch,
                   carried>>

\* lines 113-123: read the output file (raises when it is absent or holds no
\* row), plan the dates after its latest one
MostRecentBegin ==
    /\ pc = "call" /\ ingestion_type = "most_recent"
    /\ IF output_file.exists /\ output_file.rows # <<>>
       THEN LET old_df == ReadCsv(output_file.rows)
            IN  /\ historical_dfs' = <<old_df>>
                /\ end_date' = GetMostRecentDate(today_datetime)
                /\ date_list' = MostRecentDateList(LatestDate(old_df),
                                                   GetMostRecentDate(today_datetime))
                /\ pos' = 0
                /\ pc' = "fetch"
                /\ UNCHANGED <<ingestion_type, df, run_log, prior>>
       ELSE ProcessGone
    /\ UNCHANGED <<today_datetime, legacy_file, output_file, data_dir, last_fetch,
                   carried>>

\* lines 97-100 and 124-127, one turn of the loop: requests.get (line 65) either
\* raises, which nothing catches, or returns a response for get_data_for_date
FetchNext ==
    /\ pc = "fetch" /\ pos < Len(date_list)
    /\ LET d == date_list[pos + 1]
       IN  \/ /\ last_fetch' = [date |-> d, kind |-> "conn_error", raised |-> TRUE,
                                returned |-> "none"]
              /\ ProcessGone
           \/ \E response \in Responses(d) :
                LET got == GetDataForDate(d, response)
                IN  /\ last_fetch' = [date |-> d, kind |-> response.kind,
                                      raised |-> FALSE, returned |-> got.kind]
                    /\ historical_dfs' = IF got.kind = "df"
                                         THEN Append(historical_dfs, got.rows)
                                         ELSE historical_dfs
                    /\ run_log' =
                         [requested |-> run_log.requested \cup {d},
                          unavailable |-> run_log.unavailable
                                          \cup (IF got.kind = "None" THEN {d} ELSE {}),
                          ok |-> run_log.ok \cup (IF got.kind = "df" THEN {d} ELSE {}),
                          nonempty |-> run_log.nonempty
                                       \cup (IF got.kind = "df" /\ got.rows # <<>>
                                             THEN {d} ELSE {})]
                    /\ pos' = pos + 1
                    /\ UNCHANGED <<ingestion_type, pc, end_date, date_list, df, prior>>
    /\ UNCHANGED <<today_datetime, legacy_file, output_file, data_dir, carried>>

\* lines 102-110 and 129-137: the merge; a ValueError ends the process
ConcatAndResample ==
    /\ pc = "fetch" /\ pos = Len(date_list)
    /\ LET merged == Merge(historical_dfs)
       IN  IF merged.kind = "df"
           THEN /\ df' = merged.rows
                /\ pc' = "to_csv"
                /\ UNCHANGED <<ingestion_type, end_date, date_list, pos, historical_dfs>>
                /\ UNCHANGED <<run_log, prior>>
       ELSE ProcessGone
    /\ UNCHANGED <<today_datetime, legacy_file, output_file, data_dir, last_fetch,
                   carried>>

\* lines 145-148, first half: the data directory is made when absent, and
\* to_csv opens the output file for writing, which empties it
ToCsvOpen ==
    /\ pc = "to_csv"
    /\ data_dir' = TRUE
    /\ output_file' = [exists |-> TRUE, rows |-> <<>>]
    /\ pc' = "write"
    /\ UNCHANGED <<today_datetime, ingestion_type, legacy_file, end_date, date_list,
                   pos, historical_dfs, df, last_fetch, run_log, prior, carried>>

\* what a run that completed leaves for the runs after it
CarriedAfter ==
    IF ingestion_type = "most_recent"
    THEN [buried_ok |-> carried.buried_ok \cup
                        {d \in run_log.unavailable : \E e \in run_log.ok : e > d},
          buried_data |-> carried.buried_data \cup
                          {d \in run_log.unavailable : \E e \in run_log.nonempty : e > d},
          tail |-> {d \in run_log.unavailable : ~ \E e \in run_log.nonempty : e > d}]
    ELSE NothingCarried

\* line 148, second half: the rows reach the file a buffer at a time; after
\* the last one to_csv returns and __call__ is over
ToCsvWrite ==
    /\ pc = "write"
    /\ LET all == ToCsv(df)
           upto == IF Len(output_file.rows) + WriteChunkRows >= Len(all)
                   THEN Len(all) ELSE Len(output_file.rows) + WriteChunkRows
       IN  /\ output_file' = [exists |-> TRUE, rows |-> SubSeq(all, 1, upto)]
           /\ IF upto = Len(all)
              THEN pc' = "done" /\ carried' = CarriedAfter
              ELSE UNCHANGED <<pc, carried>>
    /\ UNCHANGED <<today_datetime, ingestion_type, legacy_file, data_dir, end_date,
                   date_list, pos, historical_dfs, df, last_fetch, run_log, prior>>

\* line 158 returned: the process exits
Exit ==
    /\ pc = "done"
    /\ ProcessGone
    /\ last_fetch' = NoFetch
    /\ UNCHANGED <<today_datetime, legacy_file, output_file, data_dir, carried>>

\* the process is terminated from outside, wherever it is
Terminate ==
    /\ pc \in {"call", "fetch", "to_csv", "write"}
    /\ ProcessGone
    /\ carried' = IF pc = "write" THEN NothingCarried ELSE carried
    /\ last_fetch' = NoFetch
    /\ UNCHANGED <<today_datetime, legacy_file, output_file, data_dir>>

Next ==
    \/ (\E type \in {"historical", "most_recent"} : Construct(type)) /\ UNCHANGED <<fetchVars, mergeVars>>
    \/ HistoricalBegin /\ UNCHANGED <<fetchVars, mergeVars>>
    \/ MostRecentBegin /\ UNCHANGED <<fetchVars, mergeVars>>
    \/ FetchNext /\ UNCHANGED <<fetchVars, mergeVars>>
    \/ ConcatAndResample /\ UNCHANGED <<fetchVars, mergeVars>>
    \/ ToCsvOpen /\ UNCHANGED <<fetchVars, mergeVars>>
    \/ ToCsvWrite /\ UNCHANGED <<fetchVars, mergeVars>>
    \/ Exit /\ UNCHANGED <<fetchVars, mergeVars>>
    \/ Terminate /\ UNCHANGED <<fetchVars, mergeVars>>

Spec == Init /\ [][Next]_vars

----------------------------------------------------------------------------
(* get_data_for_date on its own: every short daily file over a few rows *)

RunIdle ==
    /\ today_datetime = [day |-> ExportStartDate, hour |-> 0]
    /\ ingestion_type = "none" /\ pc = "idle"
    /\ legacy_file = NoFile /\ output_file = NoFile /\ data_dir = FALSE
    /\ end_date = 0 /\ date_list = <<>> /\ pos = 0
    /\ historical_dfs = <<>> /\ df = <<>>
    /\ last_fetch = NoFetch /\ run_log = EmptyLog
    /\ prior = NoFile /\ carried = NothingCarried

\* rows a daily file of date d is made of: samples of the target inside one
\* hour, later in the day, on both neighbouring days, and of another server
RawCandidates(d) ==
    {Raw(TargetIp, At(d, 0, 10), 10), Raw(TargetIp, At(d, 0, 40), 15),
     Raw(TargetIp, At(d, 0, 40), 10), Raw(TargetIp, At(d, 2, 0), 20),
     Raw(TargetIp, At(d + 1, 0, 5), 30), Raw(TargetIp, At(d - 1, 23, 50), 5),
     Raw("mc.other.net", At(d, 0, 20), 99), Raw("mc.other.net", At(d, 5, 0), 99)}

RawFiles(d) == UNION {[1..n -> RawCandidates(d)] : n \in 0..MaxRawRows}

FetchInit ==
    /\ RunIdle
    /\ m_in = <<>> /\ m_out = <<>>
    /\ f_date \in {ExportStartDate, ExportStartDate + 1}
    /\ f_response \in {[kind |-> "http_error"], [kind |-> "malformed"]}
                      \cup {[kind |-> "csv", rows |-> r] : r \in RawFiles(f_date)}
    /\ f_result = [kind |-> "none"]

\* get_data_for_date(d) once requests.get has returned
FetchCall ==
    /\ f_result.kind = "none"
    /\ f_result' = GetDataForDate(f_date, f_response)
    /\ UNCHANGED <<f_date, f_response>>

FetchNextStep == FetchCall /\ UNCHANGED <<runVars, mergeVars>>

SpecFetch == FetchInit /\ [][FetchNextStep]_vars

----------------------------------------------------------------------------
(* The merge on its own: a baseline and two daily series *)

\* daily series as get_data_for_date returns them
DailySeries(d) == {HourlyPeaks(d, r) : r \in {RawPeaks(d), RawSpill(d), RawLate(d),
                                              <<Raw(TargetIp, At(d, 1, 30), 25)>>}}

\* baselines as read_csv returns them: the legacy files, and an output file
\* that already covers export_start_date
Baselines ==
    {ReadCsv(f.rows) : f \in {g \in LegacyFiles : g.exists}}
    \cup {ReadCsv(ToCsv(Merge(<<ReadCsv(<<Line(0, 23, 120)>>),
                                HourlyPeaks(ExportStartDate, RawPeaks(ExportStartDate))>>).rows))}

NoResult == [kind |-> "none"]

MergeInit ==
    /\ RunIdle
    /\ f_date = 0 /\ f_response = [kind |-> "none"] /\ f_result = [kind |-> "none"]
    /\ \E d1 \in ExportStartDate..(ExportStartDate + 1), d2 \in ExportStartDate..(ExportStartDate + 1) :
          /\ d1 <= d2
          /\ m_in \in [B : Baselines, D1 : DailySeries(d1), D2 : DailySeries(d2)]
    /\ m_out = [both |-> NoResult, first |-> NoResult, second |-> NoResult]

\* one run that merges B with D1 and D2
MergeBoth ==
    /\ m_out.both = NoResult
    /\ m_out' = [m_out EXCEPT !.both = Merge(<<m_in.B, m_in.D1, m_in.D2>>)]
    /\ UNCHANGED m_in

\* a run that merges B with D1 and writes the result
MergeFirst ==
    /\ m_out.first = NoResult
    /\ m_out' = [m_out EXCEPT !.first = Merge(<<m_in.B, m_in.D1>>)]
    /\ UNCHANGED m_in

\* a later run that reads that result back and merges D2 into it
MergeSecond ==
    /\ m_out.first # NoResult /\ m_out.second = NoResult
    /\ m_out' = [m_out EXCEPT !.second =
                    IF m_out.first.kind = "df"
                    THEN Merge(<<ReadCsv(ToCsv(m_out.first.rows)), m_in.D2>>)
                    ELSE [kind |-> "raise"]]
    /\ UNCHANGED m_in

MergeNext ==
    \/ MergeBoth /\ UNCHANGED <<runVars, fetchVars>>
    \/ MergeFirst /\ UNCHANGED <<runVars, fetchVars>>
    \/ MergeSecond /\ UNCHANGED <<runVars, fetchVars>>

SpecMerge == MergeInit /\ [][MergeNext]_vars

----------------------------------------------------------------------------
(* Properties *)

\* the latest calendar date among the rows of a frame
NewestDate(rows) == MaxOf({DateOf(r.Timestamp) : r \in SeqRange(rows)})

AfterPlan == pc \in {"fetch", "to_csv", "write", "done"}

\* the timestamps of the rows the output file holds
FileTimes ==
    [k \in 1..Len(output_file.rows) |-> ParseTimestamp(output_file.rows[k].Timestamp)]

\* the values the frames of the running merge supply for the hour starting at h
Contributing(frames, h) ==
    {r.Peak : r \in {x \in SeqRange(Concat(frames)) :
                        FloorHour(x.Timestamp) = h /\ x.Peak \notin {NaN, NA}}}

InputTimes(frames) == {r.Timestamp : r \in SeqRange(Concat(frames))}

\* C1: the series in the output file has timestamps exactly one hour apart,
\* strictly increasing, with every hour between its first and last present;
\* when a run has completed the series spans the hours from the earliest to
\* the latest input row, an hour holds the value supplied for it, and an hour
\* nothing was supplied for is present and empty ("no data").
C1_HourlyGrid ==
    output_file.exists =>
        /\ \A k \in 1..(Len(output_file.rows) - 1) : FileTimes[k + 1] = FileTimes[k] + MsPerHour
        /\ pc = "done" =>
              /\ output_file.rows # <<>>
              /\ FileTimes[1] = FloorHour(MinOf(InputTimes(historical_dfs)))
              /\ FileTimes[Len(output_file.rows)] = FloorHour(MaxOf(InputTimes(historical_dfs)))
              /\ \A k \in 1..Len(output_file.rows) :
                    IF Contributing(historical_dfs, FileTimes[k]) = {}
                    THEN output_file.rows[k].Field = Blank
                    ELSE output_file.rows[k].Field \in Contributing(historical_dfs, FileTimes[k])

\* a most_recent run after a historical one has completed, one of its dates
\* was unavailable, and the file holds samples at 00:00 and 03:00 of a day
\* with 01:00 and 02:00 empty between them
C1_Witness ==
    /\ pc = "done" /\ ingestion_type = "most_recent"
    /\ run_log.unavailable # {} /\ run_log.nonempty # {}
    /\ \E k \in 1..(Len(output_file.rows) - 3) :
          /\ output_file.rows[k].Timestamp[2] = 0
          /\ output_file.rows[k].Field = 15
          /\ output_file.rows[k + 1].Field = Blank
          /\ output_file.rows[k + 2].Field = Blank
          /\ output_file.rows[k + 3].Field = 20

\* C4 as claimed: whatever fails in a fetch, get_data_for_date returns None
\* and the run goes on.
C4_FetchNeverRaises ==
    last_fetch.kind \in {"conn_error", "http_error", "malformed"} =>
        ~last_fetch.raised /\ last_fetch.returned = "None"

\* C5 as claimed, for a run that starts over an output file with rows in it:
\* at every point of the run the output file holds what it held before the
\* run or the complete merged series of the run.
C5_NoPartialOutput ==
    (pc # "idle" /\ prior.exists /\ prior.rows # <<>>) =>
        \/ output_file = prior
        \/ pc \in {"write", "done"} /\ output_file = [exists |-> TRUE, rows |-> ToCsv(df)]

\* how often date d is in the plan
TimesPlanned(d) == Cardinality({k \in 1..Len(date_list) : date_list[k] = d})

\* the first date of the plan of the running mode
PlanStart ==
    IF ingestion_type = "historical"
    THEN ExportStartDate
    ELSE NewestDate(historical_dfs[1]) + 1

\* C6: the plan holds date d once when start <= d <= end_date and not at all
\* otherwise, in ascending order, and is empty exactly when end_date < start;
\* start is export_start_date in historical mode and the day after the
\* baseline's latest date in most_recent mode.
C6_FetchPlan ==
    AfterPlan =>
        /\ \A d \in (0 - 3)..(MaxDay + 3) :
              TimesPlanned(d) = IF PlanStart <= d /\ d <= end_date THEN 1 ELSE 0
        /\ \A k \in 1..Len(date_list) : date_list[k] \in (0 - 3)..(MaxDay + 3)
        /\ \A j, k \in 1..Len(date_list) : j < k => date_list[j] < date_list[k]
        /\ (date_list = <<>>) <=> (end_date < PlanStart)

\* a most_recent run that planned two dates or more
C6_Witness ==
    /\ pc = "fetch" /\ ingestion_type = "most_recent"
    /\ Len(date_list) >= 2
    /\ date_list[1] = NewestDate(historical_dfs[1]) + 1
    /\ date_list[Len(date_list)] = end_date

\* C7: the cutoff is two days before the clock's date in the first hour of
\* the day and one day before it otherwise, so it is before the clock's date,
\* and no date a run requests is the clock's date or later.
C7_MostRecentDate ==
    /\ AfterPlan =>
          /\ today_datetime.hour < 1 => end_date = today_datetime.day - 2
          /\ today_datetime.hour >= 1 => end_date = today_datetime.day - 1
          /\ end_date < today_datetime.day
          /\ \A k \in 1..Len(date_list) : date_list[k] < today_datetime.day
    /\ \A d \in run_log.requested : d < today_datetime.day
    /\ last_fetch.kind # "none" => last_fetch.date < today_datetime.day

\* a run started in the first hour of the day has requested a date
C7_Witness ==
    /\ pc = "fetch" /\ today_datetime.hour = 0
    /\ run_log.requested # {}
    /\ end_date = today_datetime.day - 2
    /\ end_date \in run_log.requested

\* C8: a most_recent run whose baseline's latest timestamp is on the cutoff
\* date or later plans no date, requests nothing, and leaves in the output
\* file the series that was there before.
C8_EmptyRangeKeepsFile ==
    (pc = "done" /\ ingestion_type = "most_recent"
        /\ NewestDate(ReadCsv(prior.rows)) >= end_date) =>
        /\ date_list = <<>>
        /\ run_log.requested = {}
        /\ output_file = prior

\* such a run has completed over a file with values and empty hours
C8_Witness ==
    /\ pc = "done" /\ ingestion_type = "most_recent"
    /\ NewestDate(ReadCsv(prior.rows)) = end_date
    /\ \E k \in 1..Len(prior.rows) : prior.rows[k].Field = Blank
    /\ \E k \in 1..Len(prior.rows) : prior.rows[k].Field = 20
    /\ output_file = prior

\* C10 as claimed: a date that was unavailable in a completed most_recent run
\* in which a later date succeeded is never requested by a later most_recent
\* run.
C10_BuriedNeverRefetched ==
    (ingestion_type = "most_recent" /\ pc \in {"fetch", "to_csv", "write"}) =>
        run_log.requested \cap carried.buried_ok = {}

\* the rows the output file holds for date d
FileRowsOf(d) == SelectSeq(output_file.rows, LAMBDA r : r.Timestamp[1] = d)

\* C10 as amended: a most_recent run requests only dates after the date of the
\* latest timestamp of the output file it read; a date that was unavailable in
\* a completed most_recent run in which a later date returned a sample is
\* not requested by later most_recent runs and all its 24 hours stay empty in
\* the file; the unavailable dates with no later sample are in the plan of the
\* next most_recent run.
C10_LaterSampleBuries ==
    /\ (ingestion_type = "most_recent" /\ pc \in {"fetch", "to_csv", "write"}) =>
          /\ \A d \in run_log.requested : d > NewestDate(historical_dfs[1])
          /\ run_log.requested \cap carried.buried_data = {}
          /\ carried.tail \subseteq SeqRange(date_list)
    /\ pc # "write" =>
          \A d \in carried.buried_data :
              /\ Len(FileRowsOf(d)) = 24
              /\ \A k \in 1..24 : FileRowsOf(d)[k].Field = Blank

\* a most_recent run requests a date again that was unavailable at the tail of
\* an earlier run, while another date stays buried under a later sample
C10_Witness ==
    /\ ingestion_type = "most_recent" /\ pc = "fetch"
    /\ carried.buried_data # {}
    /\ carried.tail # {}
    /\ carried.tail \subseteq run_log.requested

\* the raw rows of the target server in the response under study
TargetRows == {r \in SeqRange(f_response.rows) : r.ip = TargetIp}

\* the player counts of the target server in the hour starting at h
CountsIn(h) == {r.playerCount : r \in {x \in TargetRows : FloorHour(x.timestamp) = h}}

MergeFrames == <<m_in.B, m_in.D1, m_in.D2>>

\* C2 as claimed: merging D1 and D2 into B in one run gives the series that
\* merging D1, then D2 in a later run, gives.
C2_MergeIncremental ==
    (m_out.both # NoResult /\ m_out.second # NoResult) =>
        /\ m_out.both.kind = "df"
        /\ m_out.second = m_out.both

\* C3 as claimed: the merge gives one row for every hour from the earliest to
\* the latest input row, holding the largest value supplied for that hour, and
\* empty (never 0) when none is supplied.
C3_MergeKeepsMaximum ==
    m_out.both # NoResult =>
        /\ m_out.both.kind = "df"
        /\ LET rows == m_out.both.rows
               lo == FloorHour(MinOf(InputTimes(MergeFrames)))
               hi == FloorHour(MaxOf(InputTimes(MergeFrames)))
           IN  /\ Len(rows) = (hi - lo) \div MsPerHour + 1
               /\ \A k \in 1..Len(rows) :
                     /\ rows[k].Timestamp = lo + (k - 1) * MsPerHour
                     /\ rows[k].Peak = IF Contributing(MergeFrames, rows[k].Timestamp) = {}
                                       THEN NA
                                       ELSE MaxOf(Contributing(MergeFrames, rows[k].Timestamp))

====
